---- MODULE Spec2Model ----
(***************************************************************************)
(* A model of dcache (src/cache.go): a two-tier read-through cache.  Each  *)
(* process (Client) owns an optional in-memory cache, a single-flight      *)
(* group, a set of keys waiting to be broadcast, and two background tasks  *)
(* (aggregateSend, listenKeyInvalidate).  All processes share one Redis:   *)
(* the value envelopes, the per-key locks and one pub/sub topic.           *)
(*                                                                         *)
(* Every action is one access to a shared object (Redis, the in-memory     *)
(* cache, the single-flight group, the pending set) together with the      *)
(* thread-local code that follows it up to the next shared access.         *)
(* A Redis command is atomic and is refused when the ctx handed to it is   *)
(* already cancelled.  updateMemoryCache and the in-memory half of         *)
(* deleteKey are taken as one step each.                                   *)
(***************************************************************************)
EXTENDS Integers, Sequences, FiniteSets, TLC

\* ------------------------------------------------------------- bounds
MaxTicks == 2      \* clock steps of TickMs taken by the wall clock
MaxOrigin == 2     \* origin reads (each returns a fresh value)
MaxInFlight == 1   \* published messages not yet handled, per subscriber
MaxCalls == 3      \* calls of the API made in one run
MaxPermuted == 2   \* largest batch whose keys are published in every order
MaxKids == 2       \* child tasks of one kind running at once, per process

\* ------------------------------------------------- program constants
maxInvalidate == 100
invalidateChSize == 100
SecondMs == 1000
NoVal == 0

TickMs == SecondMs \div 2
readInterval == SecondMs
MaxNow == MaxTicks * TickMs

\* ------------------------------------------------------------ universe
Procs == {"A", "B"}
Threads == {"a1", "a2", "a3", "b1"}
procOf(t) == IF t = "b1" THEN "B" ELSE "A"
Keys == {"k"}
\* Durations (ms) a caller or the origin may ask for.
Ttls == {TickMs, SecondMs}
\* Payloads written by Set; origin reads return 1..MaxOrigin.
SetVals == {MaxOrigin + 1, MaxOrigin + 2}

storeKey(key) == ":{" \o key \o "}"

lockKey(key) == ":" \o storeKey(key) \o "_LOCK"

RedisKeys == {storeKey(k) : k \in Keys} \cup {lockKey(k) : k \in Keys}
MemKeys == {storeKey(k) : k \in Keys}
FlightKeys == Keys \cup {lockKey(k) : k \in Keys}

VARIABLES
    now,          \* wall clock, ms (getNow)
    redis,        \* Redis key -> [ValueBytes, ExpiredAt]; the key lives until ExpiredAt
    inMemCache,   \* process -> whether a freecache was attached
    mem,          \* process -> in-memory key -> [val, expireAt (s)]
    group,        \* process -> flight key -> executing thread, or "none"
    calls,        \* thread -> the call it is running
    invalidateKeys, \* process -> keys waiting for broadcast
    invalidateCh, \* process -> signals buffered in the pressure channel
    msgs,         \* process -> published payloads its listener has not handled
    originCount,  \* origin reads made so far
    started,      \* API calls made so far
    setv,         \* process -> the last undisturbed successful Set: [v, exp]
    pubsub,       \* process -> "nil", "subscribed", "unsubscribed", "closed", "ch_closed"
    ctxDone,      \* process -> c.cancel() was called
    wg,           \* process -> the counter of c.wg
    aggPc,        \* process -> aggregateSend: "none", "select", "exit"
    lstPc,        \* process -> listenKeyInvalidate: "none", "recv", "exit"
    publishing,   \* process -> publish children spawned and not finished
    handling,     \* process -> payloads held by running per-message children
    closePc,      \* process -> where Close() stands
    busyAtClose   \* process -> Close() was called with children of both kinds running

vars == <<now, redis, inMemCache, mem, group, calls, invalidateKeys,
          invalidateCh, msgs, originCount, started, setv, pubsub, ctxDone,
          wg, aggPc, lstPc, publishing, handling, closePc, busyAtClose>>
bcastVars == <<invalidateKeys, invalidateCh>>
lifeVars == <<pubsub, ctxDone, wg, aggPc, lstPc, publishing, handling,
              closePc, busyAtClose>>

\* ------------------------------------------------------------- helpers
Absent == [ValueBytes |-> NoVal, ExpiredAt |-> 0]
MemAbsent == [val |-> NoVal, expireAt |-> 0]
NoSet == [v |-> NoVal, exp |-> 0]

\* Redis serves a key until its TTL runs out.
Present(e) == e.ExpiredAt > now

\* freecache serves an entry until its expireAt second is reached.
MemPresent(e) == e.expireAt > now \div SecondMs

MemHit(p, key) == inMemCache[p] /\ MemPresent(mem[p][storeKey(key)])

Idle ==
    [pc |-> "idle", op |-> "none", key |-> "k", noCache |-> FALSE,
     noStore |-> FALSE, val |-> NoVal, ttl |-> 0, exp |-> 0, err |-> "none",
     inLock |-> FALSE, cancelled |-> FALSE, racy |-> FALSE, bc |-> FALSE,
     reads |-> 0, oc0 |-> 0, afterSet |-> NoVal, lockExp |-> 0,
     heldAtCancel |-> FALSE, cwait |-> "none", late |-> 0,
     overlap |-> FALSE, readAt |-> 0, failed |-> FALSE]

Perms(S) ==
    {s \in [1..Cardinality(S) -> S] : \A i, j \in 1..Cardinality(S) : s[i] = s[j] => i = j}

\* What NewCache leaves in every Client before any call is made.
Quiet ==
    /\ group = [p \in Procs |-> [f \in FlightKeys |-> "none"]]
    /\ calls = [t \in Threads |-> Idle]
    /\ invalidateKeys = [p \in Procs |-> {}]
    /\ invalidateCh = [p \in Procs |-> 0]
    /\ msgs = [p \in Procs |-> {}]
    /\ originCount = 0
    /\ started = 0
    /\ setv = [p \in Procs |-> NoSet]

\* With a freecache NewCache subscribes and starts the aggregator and the
\* listener, counted in c.wg; without one there is no pubsub and no task.
Background ==
    /\ pubsub = [p \in Procs |-> IF inMemCache[p] THEN "subscribed" ELSE "nil"]
    /\ ctxDone = [p \in Procs |-> FALSE]
    /\ wg = [p \in Procs |-> IF inMemCache[p] THEN 2 ELSE 0]
    /\ aggPc = [p \in Procs |-> IF inMemCache[p] THEN "select" ELSE "none"]
    /\ lstPc = [p \in Procs |-> IF inMemCache[p] THEN "recv" ELSE "none"]
    /\ publishing = [p \in Procs |-> 0]
    /\ handling = [p \in Procs |-> {}]
    /\ closePc = [p \in Procs |-> "none"]
    /\ busyAtClose = [p \in Procs |-> FALSE]

\* NewCache for every process over an empty Redis, given which of them
\* attach a freecache.
NewCache(attached) ==
    /\ now = 0
    /\ redis = [r \in RedisKeys |-> Absent]
    /\ inMemCache \in attached
    /\ mem = [p \in Procs |-> [m \in MemKeys |-> MemAbsent]]
    /\ Quiet
    /\ Background

\* Process A with or without a freecache, process B without.
Init == NewCache({[p \in Procs |-> p = "A" /\ b] : b \in BOOLEAN})

\* Every process with a freecache, or none.
InitFleet == NewCache({[p \in Procs |-> b] : b \in BOOLEAN})

\* ------------------------------------------------ invalidation enqueue
\* Fault variant of broadcastKeyInvalidate: the aggregator is signalled on
\* every insert.
broadcastKeyInvalidateEager(p, key) ==
    LET keys == invalidateKeys[p] \cup {storeKey(key)} IN
    /\ invalidateKeys' = [invalidateKeys EXCEPT ![p] = keys]
    /\ invalidateCh[p] < invalidateChSize
    /\ invalidateCh' = [invalidateCh EXCEPT ![p] = @ + 1]

\* broadcastKeyInvalidate: insert under the mutex, then signal the aggregator
\* when the set has just reached maxInvalidate (a send that waits for room).
broadcastKeyInvalidate(p, key) ==
    LET keys == invalidateKeys[p] \cup {storeKey(key)} IN
    /\ invalidateKeys' = [invalidateKeys EXCEPT ![p] = keys]
    /\ IF Cardinality(keys) = maxInvalidate
         THEN /\ invalidateCh[p] < invalidateChSize
              /\ invalidateCh' = [invalidateCh EXCEPT ![p] = @ + 1]
         ELSE UNCHANGED invalidateCh

\* Fault variant of memTtl: the envelope's expiry is rounded up to a second.
memTtlRoundedUp(exp) == ((exp + SecondMs - 1) \div SecondMs) - (now \div SecondMs)

\* The whole-second TTL updateMemoryCache derives for the in-memory entry.
memTtl(exp) == (exp \div SecondMs) - (now \div SecondMs)

\* The in-memory cache holds the key with another payload than val.
Stale(p, key, val) ==
    MemHit(p, key) /\ mem[p][storeKey(key)].val # val

\* updateMemoryCache(key, ve) with ve = {ValueBytes: val, ExpiredAt: exp}.
updateMemoryCache(p, key, val, exp) ==
    IF inMemCache[p] /\ memTtl(exp) > 0
      THEN /\ IF Stale(p, key, val)
                THEN broadcastKeyInvalidate(p, storeKey(key))
                ELSE UNCHANGED bcastVars
           /\ mem' = [mem EXCEPT ![p][storeKey(key)] =
                         [val |-> val, expireAt |-> (now \div SecondMs) + memTtl(exp)]]
      ELSE UNCHANGED <<mem, bcastVars, lifeVars>>

\* ------------------------------------------------------- continuations
\* GetWithTtl / Set / Invalidate hands its result to the caller.
Finish(c) ==
    [c EXCEPT !.pc = "done", !.ttl = 0, !.exp = 0, !.inLock = FALSE,
              !.racy = FALSE, !.lockExp = 0, !.overlap = FALSE, !.readAt = 0]

\* readValue returns: into the lock flight's function, or straight to the caller.
RvReturn(c) == IF c.inLock THEN [c EXCEPT !.pc = "lk_ret"] ELSE Finish(c)

\* Fault variant of AfterRead: the origin's error is dropped and what f()
\* returned beside it is stored and handed out.
AfterReadMasksError(c, v, ttl, ok) ==
    IF c.noStore THEN RvReturn([c EXCEPT !.val = v, !.ttl = ttl])
    ELSE [c EXCEPT !.val = v, !.ttl = ttl, !.pc = "set_key"]

\* Fault variant of AfterRead: readValue goes on to setKey whatever noStore says.
AfterReadAlwaysStores(c, v, ttl, ok) ==
    IF ~ok THEN RvReturn([c EXCEPT !.val = NoVal, !.err = "origin"])
    ELSE [c EXCEPT !.val = v, !.ttl = ttl, !.pc = "set_key"]

\* readValue after its flight delivered (v, ttl, ok): error out, or marshal and
\* go on to setKey unless noStore.
AfterRead(c, v, ttl, ok) ==
    IF ~ok THEN RvReturn([c EXCEPT !.val = NoVal, !.err = "origin"])
    ELSE IF c.noStore THEN RvReturn([c EXCEPT !.val = v, !.ttl = ttl])
    ELSE [c EXCEPT !.val = v, !.ttl = ttl, !.pc = "set_key"]

\* Fault variant of GetWithTtl: the noCache short-circuit is missing, so every
\* call starts with the in-memory lookup.
GetWithTtlLooksUpFirst(t, key, noCache, noStore) ==
    LET p == procOf(t)
        c == [Idle EXCEPT !.op = "get", !.key = key, !.noCache = noCache,
                          !.noStore = noStore, !.oc0 = originCount,
                          !.afterSet = IF noCache THEN NoVal ELSE setv[p].v]
    IN
    /\ calls[t].pc = "idle"
    /\ started < MaxCalls
    /\ started' = started + 1
    /\ calls' = [calls EXCEPT ![t] =
          IF MemHit(p, key)
            THEN Finish([c EXCEPT !.val = mem[p][storeKey(key)].val])
            ELSE [c EXCEPT !.pc = "lk_do"]]
    /\ UNCHANGED <<now, redis, inMemCache, mem, group, bcastVars, msgs,
                   originCount, setv, lifeVars>>

\* --------------------------------------------------------- GetWithTtl
\* Entry: the noCache short-circuit, else the in-memory lookup.
GetWithTtl(t, key, noCache, noStore) ==
    LET p == procOf(t)
        c == [Idle EXCEPT !.op = "get", !.key = key, !.noCache = noCache,
                          !.noStore = noStore, !.oc0 = originCount,
                          !.afterSet = IF noCache THEN NoVal ELSE setv[p].v]
    IN
    /\ calls[t].pc = "idle"
    /\ started < MaxCalls
    /\ started' = started + 1
    /\ calls' = [calls EXCEPT ![t] =
          IF noCache THEN [c EXCEPT !.pc = "rv_do"]
          ELSE IF MemHit(p, key)
            THEN Finish([c EXCEPT !.val = mem[p][storeKey(key)].val])
            ELSE [c EXCEPT !.pc = "lk_do"]]
    /\ UNCHANGED <<now, redis, inMemCache, mem, group, bcastVars, msgs,
                   originCount, setv, lifeVars>>

\* c.group.Do(lockKey(key), ...): run the function, or wait for the flight
\* that is already running it.
LockFlightDo(t) ==
    LET p == procOf(t)  c == calls[t]  f == lockKey(c.key) IN
    /\ c.pc = "lk_do"
    /\ IF group[p][f] = "none"
         THEN /\ group' = [group EXCEPT ![p][f] = t]
              /\ calls' = [calls EXCEPT ![t].pc = "redis_get"]
         ELSE /\ calls' = [calls EXCEPT ![t].pc = "lk_wait"]
              /\ UNCHANGED group
    /\ UNCHANGED <<now, redis, inMemCache, mem, bcastVars, msgs, originCount, started, setv, lifeVars>>

\* conn.Get(ctx, storeKey(key)) and the decode of the envelope.
RedisGet(t) ==
    LET c == calls[t]  e == redis[storeKey(c.key)] IN
    /\ c.pc = "redis_get"
    /\ calls' = [calls EXCEPT ![t] =
          IF ~c.cancelled /\ Present(e)
            THEN [c EXCEPT !.val = e.ValueBytes, !.exp = e.ExpiredAt,
                           !.pc = IF c.noStore THEN "lk_ret" ELSE "backfill"]
            ELSE [c EXCEPT !.pc = "setnx"]]
    /\ UNCHANGED <<now, redis, inMemCache, mem, group, bcastVars, msgs,
                   originCount, started, setv, lifeVars>>

\* The remote hit's backfill of the in-memory cache.
Backfill(t) ==
    LET c == calls[t] IN
    /\ c.pc = "backfill"
    /\ updateMemoryCache(procOf(t), c.key, c.val, c.exp)
    /\ calls' = [calls EXCEPT ![t].pc = "lk_ret"]
    /\ UNCHANGED <<now, redis, inMemCache, group, msgs, originCount, started, setv, lifeVars>>

\* Fault variant of SetNX: a plain SET, which takes the lock from its holder.
SetNXIgnoresHolder(t) ==
    LET c == calls[t]  l == lockKey(c.key) IN
    /\ c.pc = "setnx"
    /\ IF ~c.cancelled
         THEN /\ redis' = [redis EXCEPT ![l] =
                     [ValueBytes |-> NoVal, ExpiredAt |-> now + readInterval]]
              /\ calls' = [calls EXCEPT ![t].pc = "rv_do", ![t].inLock = TRUE,
                                        ![t].lockExp = now + readInterval]
         ELSE /\ calls' = [calls EXCEPT ![t].pc = "sleep"]
              /\ UNCHANGED redis
    /\ UNCHANGED <<now, inMemCache, mem, group, bcastVars, msgs, originCount, started, setv, lifeVars>>

\* Fault variant of SetNX: the command goes through on a cancelled ctx.
SetNXIgnoresCtx(t) ==
    LET c == calls[t]  l == lockKey(c.key) IN
    /\ c.pc = "setnx"
    /\ IF ~Present(redis[l])
         THEN /\ redis' = [redis EXCEPT ![l] =
                     [ValueBytes |-> NoVal, ExpiredAt |-> now + readInterval]]
              /\ calls' = [calls EXCEPT ![t].pc = "rv_do", ![t].inLock = TRUE,
                                        ![t].lockExp = now + readInterval]
         ELSE /\ calls' = [calls EXCEPT ![t].pc = "sleep",
                     ![t].lockExp = IF c.cancelled THEN @ ELSE redis[l].ExpiredAt]
              /\ UNCHANGED redis
    /\ UNCHANGED <<now, inMemCache, mem, group, bcastVars, msgs, originCount, started, setv, lifeVars>>

\* conn.SetNX(ctx, lockKey(key), "", readInterval).
SetNX(t) ==
    LET c == calls[t]  l == lockKey(c.key) IN
    /\ c.pc = "setnx"
    /\ IF ~c.cancelled /\ ~Present(redis[l])
         THEN /\ redis' = [redis EXCEPT ![l] =
                     [ValueBytes |-> NoVal, ExpiredAt |-> now + readInterval]]
              /\ calls' = [calls EXCEPT ![t].pc = "rv_do", ![t].inLock = TRUE,
                                        ![t].lockExp = now + readInterval]
         ELSE /\ calls' = [calls EXCEPT ![t].pc = "sleep",
                     ![t].lockExp = IF c.cancelled THEN @ ELSE redis[l].ExpiredAt]
              /\ UNCHANGED redis
    /\ UNCHANGED <<now, inMemCache, mem, group, bcastVars, msgs, originCount, started, setv, lifeVars>>

\* Fault variant of SleepSelect: a cancelled sleeper may wake on the timer any
\* number of times before it notices ctx.Done.
SleepSelectKeepsWaking(t, timeout) ==
    LET c == calls[t] IN
    /\ c.pc = "sleep"
    /\ IF timeout
         THEN /\ c.cancelled
              /\ calls' = [calls EXCEPT ![t].pc = "lk_ret", ![t].val = NoVal,
                                        ![t].err = "timeout", ![t].racy = FALSE]
         ELSE /\ calls' = [calls EXCEPT ![t].pc = "redis_get", ![t].racy = FALSE,
                                        ![t].late = IF c.cancelled THEN @ + 1 ELSE @]
    /\ UNCHANGED <<now, redis, inMemCache, mem, group, bcastVars, msgs,
                   originCount, started, setv, lifeVars>>

\* select { <-ctx.Done(): ErrTimeout; <-time.After(lockSleep): continue }.
\* With ctx cancelled before the select only Done is ready; when it is
\* cancelled during the sleep (racy) the timer may be ready as well.
SleepSelect(t, timeout) ==
    LET c == calls[t] IN
    /\ c.pc = "sleep"
    /\ IF timeout
         THEN /\ c.cancelled
              /\ calls' = [calls EXCEPT ![t].pc = "lk_ret", ![t].val = NoVal,
                                        ![t].err = "timeout", ![t].racy = FALSE]
         ELSE /\ ~c.cancelled \/ c.racy
              /\ calls' = [calls EXCEPT ![t].pc = "redis_get", ![t].racy = FALSE,
                                        ![t].late = IF c.cancelled THEN @ + 1 ELSE @]
    /\ UNCHANGED <<now, redis, inMemCache, mem, group, bcastVars, msgs,
                   originCount, started, setv, lifeVars>>

\* Fault variant of LockFlightReturn: the callers that joined the flight are
\* released without its bytes.
LockFlightReturnEmpty(t) ==
    LET p == procOf(t)  c == calls[t]  f == lockKey(c.key) IN
    /\ c.pc = "lk_ret"
    /\ group' = [group EXCEPT ![p][f] = "none"]
    /\ calls' = [u \in Threads |->
          IF u = t THEN Finish(c)
          ELSE IF procOf(u) = p /\ calls[u].pc = "lk_wait" /\ calls[u].key = c.key
            THEN Finish([calls[u] EXCEPT !.val = NoVal, !.err = c.err,
                                         !.failed = c.failed])
            ELSE calls[u]]
    /\ UNCHANGED <<now, redis, inMemCache, mem, bcastVars, msgs, originCount, started, setv, lifeVars>>

\* The lock flight's function returns: the executor and every caller that
\* joined the flight get its (bytes, error), and the flight is forgotten.
LockFlightReturn(t) ==
    LET p == procOf(t)  c == calls[t]  f == lockKey(c.key) IN
    /\ c.pc = "lk_ret"
    /\ group' = [group EXCEPT ![p][f] = "none"]
    /\ calls' = [u \in Threads |->
          IF u = t THEN Finish(c)
          ELSE IF procOf(u) = p /\ calls[u].pc = "lk_wait" /\ calls[u].key = c.key
            THEN Finish([calls[u] EXCEPT !.val = c.val, !.err = c.err,
                                         !.failed = c.failed])
            ELSE calls[u]]
    /\ UNCHANGED <<now, redis, inMemCache, mem, bcastVars, msgs, originCount, started, setv, lifeVars>>

\* ---------------------------------------------------------- readValue
\* c.group.Do(key, ...): call the origin, or wait for the flight calling it.
ReadFlightDo(t) ==
    LET p == procOf(t)  c == calls[t] IN
    /\ c.pc = "rv_do"
    /\ IF group[p][c.key] = "none"
         THEN /\ group' = [group EXCEPT ![p][c.key] = t]
              /\ calls' = [calls EXCEPT ![t].pc = "origin"]
         ELSE /\ calls' = [calls EXCEPT ![t].pc = "rv_wait"]
              /\ UNCHANGED group
    /\ UNCHANGED <<now, redis, inMemCache, mem, bcastVars, msgs, originCount, started, setv, lifeVars>>

\* Fault variant of Origin: the callers that joined the read flight are never
\* handed its result.
OriginForgetsFollowers(t, ttl, ok) ==
    LET p == procOf(t)  c == calls[t]  v == originCount + 1 IN
    /\ c.pc = "origin"
    /\ originCount < MaxOrigin
    /\ originCount' = v
    /\ group' = [group EXCEPT ![p][c.key] = "none"]
    /\ calls' = [calls EXCEPT ![t] =
          AfterRead([c EXCEPT !.reads = @ + 1, !.readAt = now, !.failed = ~ok],
                    v, ttl, ok)]
    /\ UNCHANGED <<now, redis, inMemCache, mem, bcastVars, msgs, started, setv, lifeVars>>

\* f() returns (a fresh value, ttl) or an error; the flight hands it to the
\* executor and to every caller that joined, and each goes on in readValue.
Origin(t, ttl, ok) ==
    LET p == procOf(t)  c == calls[t]  v == originCount + 1 IN
    /\ c.pc = "origin"
    /\ originCount < MaxOrigin
    /\ originCount' = v
    /\ group' = [group EXCEPT ![p][c.key] = "none"]
    /\ calls' = [u \in Threads |->
          IF u = t
            THEN AfterRead([c EXCEPT !.reads = @ + 1, !.readAt = now, !.failed = ~ok],
                           v, ttl, ok)
          ELSE IF procOf(u) = p /\ calls[u].pc = "rv_wait" /\ calls[u].key = c.key
            THEN AfterRead([calls[u] EXCEPT !.failed = ~ok], v, ttl, ok)
            ELSE calls[u]]
    /\ UNCHANGED <<now, redis, inMemCache, mem, bcastVars, msgs, started, setv, lifeVars>>

\* ------------------------------------------------------------- setKey
\* setKey up to conn.Set: build the envelope from getNow() and write it.
\* When the write fails, Set reports the error and readValue only logs it.
SetKeyRemote(t) ==
    LET c == calls[t]  k == storeKey(c.key) IN
    /\ c.pc = "set_key"
    /\ IF c.cancelled
         THEN /\ calls' = [calls EXCEPT ![t] =
                    IF c.op = "set" THEN Finish([c EXCEPT !.err = "ctx"]) ELSE RvReturn(c)]
              /\ UNCHANGED redis
         ELSE /\ redis' = [redis EXCEPT ![k] =
                    [ValueBytes |-> c.val, ExpiredAt |-> now + c.ttl]]
              /\ calls' = [calls EXCEPT ![t].exp = now + c.ttl, ![t].pc = "update_mem"]
    /\ UNCHANGED <<now, inMemCache, mem, group, bcastVars, msgs, originCount, started, setv, lifeVars>>

\* Thread u is inside a Set or an Invalidate.
Writing(u) == calls[u].op \in {"set", "inv"} /\ calls[u].pc # "done"

\* A Set or Invalidate starts on thread t: the Sets it overlaps are marked.
Overlapped(t, c) ==
    [u \in Threads |->
        IF u = t THEN [c EXCEPT !.overlap = \E w \in Threads \ {t} : Writing(w)]
        ELSE IF Writing(u) THEN [calls[u] EXCEPT !.overlap = TRUE]
        ELSE calls[u]]

\* A Set that succeeded and overlapped no other Set or Invalidate.
SetRecord(t) ==
    IF calls[t].overlap THEN NoSet
    ELSE [v |-> calls[t].val, exp |-> calls[t].exp]

\* setKey's updateMemoryCache, and the return of setKey to Set or readValue.
SetKeyMem(t) ==
    LET p == procOf(t)  c == calls[t]
        d == [c EXCEPT !.bc = c.op = "set" /\ c.ttl >= SecondMs
                                       /\ Stale(p, c.key, c.val)]
    IN
    /\ c.pc = "update_mem"
    /\ updateMemoryCache(p, c.key, c.val, c.exp)
    /\ calls' = [calls EXCEPT ![t] = IF c.op = "set" THEN Finish(d) ELSE RvReturn(d)]
    /\ setv' = IF c.op = "set" THEN [setv EXCEPT ![p] = SetRecord(t)] ELSE setv
    /\ UNCHANGED <<now, redis, inMemCache, group, msgs, originCount, started, lifeVars>>

\* Set: marshal the value and call setKey.
Set(t, key, val, ttl) ==
    /\ calls[t].pc = "idle"
    /\ started < MaxCalls
    /\ started' = started + 1
    /\ calls' = Overlapped(t, [Idle EXCEPT !.op = "set", !.key = key, !.val = val,
                                             !.ttl = ttl, !.pc = "set_key"])
    /\ setv' = [p \in Procs |-> NoSet]
    /\ UNCHANGED <<now, redis, inMemCache, mem, group, bcastVars, msgs, originCount, lifeVars>>

\* ---------------------------------------------------------- deleteKey
Invalidate(t, key) ==
    /\ calls[t].pc = "idle"
    /\ started < MaxCalls
    /\ started' = started + 1
    /\ calls' = Overlapped(t, [Idle EXCEPT !.op = "inv", !.key = key, !.pc = "del_key",
                                             !.oc0 = originCount])
    /\ setv' = [p \in Procs |-> NoSet]
    /\ UNCHANGED <<now, redis, inMemCache, mem, group, bcastVars, msgs, originCount, lifeVars>>

\* Fault variant of DeleteKeyRemote: the lock of the key is deleted as well.
DeleteKeyRemoteDropsLock(t) ==
    LET c == calls[t] IN
    /\ c.pc = "del_key"
    /\ redis' = IF c.cancelled THEN redis
                ELSE [redis EXCEPT ![storeKey(c.key)] = Absent,
                                   ![lockKey(c.key)] = Absent]
    /\ calls' = [calls EXCEPT ![t].pc = "del_mem"]
    /\ UNCHANGED <<now, inMemCache, mem, group, bcastVars, msgs, originCount, started, setv, lifeVars>>

\* conn.Del(ctx, storeKey(key)); its result is ignored.
DeleteKeyRemote(t) ==
    LET c == calls[t] IN
    /\ c.pc = "del_key"
    /\ redis' = IF c.cancelled THEN redis
                ELSE [redis EXCEPT ![storeKey(c.key)] = Absent]
    /\ calls' = [calls EXCEPT ![t].pc = "del_mem"]
    /\ UNCHANGED <<now, inMemCache, mem, group, bcastVars, msgs, originCount, started, setv, lifeVars>>

\* Fault variant of deleteKeyMem: the key is dropped without a broadcast.
deleteKeyMemSilent(p, key) ==
    IF inMemCache[p]
      THEN /\ UNCHANGED bcastVars
           /\ mem' = [mem EXCEPT ![p][storeKey(key)] = MemAbsent]
      ELSE UNCHANGED <<mem, bcastVars, lifeVars>>

\* The in-memory half of deleteKey: broadcast when the key was held, then Del.
deleteKeyMem(p, key) ==
    IF inMemCache[p]
      THEN /\ IF MemHit(p, key)
                THEN broadcastKeyInvalidate(p, key)
                ELSE UNCHANGED bcastVars
           /\ mem' = [mem EXCEPT ![p][storeKey(key)] = MemAbsent]
      ELSE UNCHANGED <<mem, bcastVars, lifeVars>>

DeleteKeyMem(t) ==
    LET p == procOf(t)  c == calls[t] IN
    /\ c.pc = "del_mem"
    /\ deleteKeyMem(p, c.key)
    /\ calls' = [calls EXCEPT ![t] =
          Finish([c EXCEPT !.bc = MemHit(p, c.key)])]
    /\ UNCHANGED <<now, redis, inMemCache, group, msgs, originCount, started, setv, lifeVars>>

\* ------------------------------------------------- background tasks
\* One of the orders in which a map holding keys may be ranged over.
\* (Four keys are taken at each level to keep the recursion shallow.)
Pick(keys) == CHOOSE x \in keys : TRUE

RECURSIVE SomeOrder(_)
SomeOrder(keys) ==
    IF Cardinality(keys) < 4
      THEN IF keys = {} THEN <<>>
           ELSE LET x == Pick(keys) IN <<x>> \o SomeOrder(keys \ {x})
      ELSE LET w == Pick(keys)
               x == Pick(keys \ {w})
               y == Pick(keys \ {w, x})
               z == Pick(keys \ {w, x, y})
           IN <<w, x, y, z>> \o SomeOrder(keys \ {w, x, y, z})

\* The orders taken for a batch: all of them up to MaxPermuted keys, one beyond.
Orders(keys) ==
    IF Cardinality(keys) <= MaxPermuted THEN Perms(keys) ELSE {SomeOrder(keys)}

\* The payload c.id + delimiter + strings.Join(keys, delimiter), as the list
\* of fields strings.Split gives back; a map is ranged over in any order.
Payloads(p, keys) == {<<p>> \o s : s \in Orders(keys)}

\* The processes Redis delivers a published message to.
Subscribers == {q \in Procs : pubsub[q] = "subscribed"}

\* aggregateSend: woken by the ticker or by a signal, it swaps the pending
\* set for an empty one and publishes it, if it holds anything.
aggregateSend(p, signalled) ==
    /\ inMemCache[p]
    /\ IF signalled
         THEN /\ invalidateCh[p] > 0
              /\ invalidateCh' = [invalidateCh EXCEPT ![p] = @ - 1]
         ELSE /\ invalidateKeys[p] # {}
              /\ UNCHANGED invalidateCh
    /\ invalidateKeys' = [invalidateKeys EXCEPT ![p] = {}]
    /\ IF invalidateKeys[p] = {}
         THEN UNCHANGED msgs
         ELSE /\ \A q \in Subscribers : Cardinality(msgs[q]) < MaxInFlight
              /\ \E m \in Payloads(p, invalidateKeys[p]) :
                    /\ \A q \in Subscribers : m \notin msgs[q]
                    /\ msgs' = [q \in Procs |->
                                IF q \in Subscribers THEN msgs[q] \cup {m} ELSE msgs[q]]
    /\ UNCHANGED <<now, redis, inMemCache, mem, group, calls, originCount, started, setv, lifeVars>>

\* Fault variant of invalidated: the sender's id is not compared with c.id.
invalidatedFromAnyone(p, l) ==
    IF Len(l) < 2 THEN {}
    ELSE {l[i] : i \in 2..Len(l)}

\* The keys the listener deletes for payload fields l received by process p.
invalidated(p, l) ==
    IF Len(l) < 2 THEN {}
    ELSE IF l[1] = p THEN {}
    ELSE {l[i] : i \in 2..Len(l)}

\* listenKeyInvalidate: handle one received payload.
listenKeyInvalidate(p, l) ==
    /\ inMemCache[p]
    /\ l \in msgs[p]
    /\ msgs' = [msgs EXCEPT ![p] = @ \ {l}]
    /\ mem' = [mem EXCEPT ![p] =
          [m \in MemKeys |-> IF m \in invalidated(p, l) THEN MemAbsent ELSE mem[p][m]]]
    /\ UNCHANGED <<now, redis, inMemCache, group, calls, bcastVars, originCount, started, setv, lifeVars>>

\* ------------------------------------------------------- environment
\* The wall clock advances by TickMs, up to MaxNow or for as long as goOn
\* holds; Redis and freecache stop serving what expired.
Advance(goOn) ==
    LET n == now + TickMs IN
    /\ n <= MaxNow \/ goOn
    /\ now' = n
    /\ redis' = [r \in RedisKeys |-> IF redis[r].ExpiredAt > n THEN redis[r] ELSE Absent]
    /\ mem' = [p \in Procs |-> [m \in MemKeys |->
          IF mem[p][m].expireAt > n \div SecondMs THEN mem[p][m] ELSE MemAbsent]]
    /\ setv' = [p \in Procs |-> IF setv[p].exp > n THEN setv[p] ELSE NoSet]
    /\ UNCHANGED <<inMemCache, group, calls, bcastVars, msgs, originCount, started, lifeVars>>

Tick == Advance(FALSE)

\* The clock of a run that is followed until every lock has run out: time
\* passes, without a horizon, for as long as some lock is alive.
TickWhileLocked ==
    /\ \E k \in Keys : Present(redis[lockKey(k)])
    /\ Advance(TRUE)

\* The lock flight this thread waits on is sleeping between lock attempts.
FollowsSleeper(t) ==
    /\ calls[t].pc = "lk_wait"
    /\ \E u \in Threads :
          /\ group[procOf(t)][lockKey(calls[t].key)] = u
          /\ calls[u].pc = "sleep"

\* The caller's ctx is cancelled while its call runs.
Cancel(t) ==
    LET c == calls[t] IN
    /\ c.pc \notin {"idle", "done"}
    /\ ~c.cancelled
    /\ calls' = [calls EXCEPT ![t] =
          [c EXCEPT !.cancelled = TRUE,
                    !.racy = (c.pc = "sleep"),
                    !.heldAtCancel = (c.lockExp > now
                                      /\ c.pc \in {"sleep", "redis_get", "setnx"}),
                    !.cwait = IF c.pc = "sleep" THEN "exec"
                              ELSE IF FollowsSleeper(t) THEN "follow" ELSE "none"]]
    /\ UNCHANGED <<now, redis, inMemCache, mem, group, bcastVars, msgs,
                   originCount, started, setv, lifeVars>>

\* The caller takes the result; the thread is free for its next call.
Return(t) ==
    /\ calls[t].pc = "done"
    /\ calls' = [calls EXCEPT ![t] = Idle]
    /\ UNCHANGED <<now, redis, inMemCache, mem, group, bcastVars, msgs,
                   originCount, started, setv, lifeVars>>

\* ------------------------------------------------------ specifications
\* Spec: two threads of process A make any of the API calls while both
\* processes' background tasks run and the clock advances.
MainThreads == {"a1", "a2"}

Next ==
    \/ \E t \in MainThreads, k \in Keys, nc \in BOOLEAN, ns \in BOOLEAN :
          GetWithTtl(t, k, nc, ns)
    \/ \E t \in MainThreads : LockFlightDo(t)
    \/ \E t \in MainThreads : RedisGet(t)
    \/ \E t \in MainThreads : Backfill(t)
    \/ \E t \in MainThreads : SetNX(t)
    \/ \E t \in MainThreads : SleepSelect(t, FALSE)
    \/ \E t \in MainThreads : LockFlightReturn(t)
    \/ \E t \in MainThreads : ReadFlightDo(t)
    \/ \E t \in MainThreads, ttl \in Ttls, ok \in BOOLEAN : Origin(t, ttl, ok)
    \/ \E t \in MainThreads : SetKeyRemote(t)
    \/ \E t \in MainThreads : SetKeyMem(t)
    \/ \E t \in MainThreads, k \in Keys, v \in SetVals, ttl \in Ttls : Set(t, k, v, ttl)
    \/ \E t \in MainThreads, k \in Keys : Invalidate(t, k)
    \/ \E t \in MainThreads : DeleteKeyRemote(t)
    \/ \E t \in MainThreads : DeleteKeyMem(t)
    \/ \E p \in Procs : aggregateSend(p, FALSE)
    \/ \E p \in Procs : \E l \in msgs[p] : listenKeyInvalidate(p, l)
    \/ \E t \in MainThreads : Return(t)
    \/ Tick

Spec == Init /\ [][Next]_vars

\* SpecCold: callers of one process read a key nothing holds; the origin
\* succeeds and its TTL outlasts the run (the clock stands still).
ColdThreads == {"a1", "a2", "a3"}

NextCold ==
    \/ \E t \in ColdThreads, k \in Keys : GetWithTtl(t, k, FALSE, FALSE)
    \/ \E t \in ColdThreads : LockFlightDo(t)
    \/ \E t \in ColdThreads : RedisGet(t)
    \/ \E t \in ColdThreads : Backfill(t)
    \/ \E t \in ColdThreads : SetNX(t)
    \/ \E t \in ColdThreads : LockFlightReturn(t)
    \/ \E t \in ColdThreads : ReadFlightDo(t)
    \/ \E t \in ColdThreads : Origin(t, SecondMs, TRUE)
    \/ \E t \in ColdThreads : SetKeyRemote(t)
    \/ \E t \in ColdThreads : SetKeyMem(t)
    \/ \E t \in ColdThreads : Return(t)

SpecCold == Init /\ [][NextCold]_vars

\* SpecLock: readers of two processes contend for the lock of one key while
\* their contexts may be cancelled and the lock may run out.
LockThreads == {"a1", "a2", "b1"}

NextLock ==
    \/ \E t \in LockThreads, k \in Keys : GetWithTtl(t, k, FALSE, FALSE)
    \/ \E t \in LockThreads : LockFlightDo(t)
    \/ \E t \in LockThreads : RedisGet(t)
    \/ \E t \in LockThreads : Backfill(t)
    \/ \E t \in LockThreads : SetNX(t)
    \/ \E t \in LockThreads, timeout \in BOOLEAN : SleepSelect(t, timeout)
    \/ \E t \in LockThreads : LockFlightReturn(t)
    \/ \E t \in LockThreads : ReadFlightDo(t)
    \/ \E t \in LockThreads, ok \in BOOLEAN : Origin(t, SecondMs, ok)
    \/ \E t \in LockThreads : SetKeyRemote(t)
    \/ \E t \in LockThreads : SetKeyMem(t)
    \/ \E t \in LockThreads : Cancel(t)
    \/ \E t \in LockThreads : Return(t)
    \/ Tick

SpecLock == InitFleet /\ [][NextLock]_vars

\* SpecInval: process B holds the key in memory and only listens; a thread
\* of process A, which may hold the key too (the same payload or another),
\* sets and invalidates it.
SeedVal == MaxOrigin + 1
SeedExp == 2 * SecondMs
Seeded == [val |-> SeedVal, expireAt |-> SeedExp \div SecondMs]

InitInval ==
    /\ now = 0
    /\ redis = [r \in RedisKeys |->
          IF r \in MemKeys THEN [ValueBytes |-> SeedVal, ExpiredAt |-> SeedExp]
          ELSE Absent]
    /\ inMemCache = [p \in Procs |-> TRUE]
    /\ \E a \in {MemAbsent, Seeded, [Seeded EXCEPT !.val = SeedVal + 1]} :
          mem = [p \in Procs |-> [m \in MemKeys |-> IF p = "B" THEN Seeded ELSE a]]
    /\ Quiet
    /\ Background

InvalThreads == {"a1"}

NextInval ==
    \/ \E t \in InvalThreads, k \in Keys, v \in SetVals, ttl \in Ttls : Set(t, k, v, ttl)
    \/ \E t \in InvalThreads, k \in Keys : Invalidate(t, k)
    \/ \E t \in InvalThreads : SetKeyRemote(t)
    \/ \E t \in InvalThreads : SetKeyMem(t)
    \/ \E t \in InvalThreads : DeleteKeyRemote(t)
    \/ \E t \in InvalThreads : DeleteKeyMem(t)
    \/ \E p \in Procs : aggregateSend(p, FALSE)
    \/ \E p \in Procs : \E l \in msgs[p] : listenKeyInvalidate(p, l)
    \/ \E t \in InvalThreads : Return(t)
    \/ Tick

SpecInval == InitInval /\ [][NextInval]_vars

\* SpecBurst: request threads of process A hand keys to
\* broadcastKeyInvalidate within one ticker period and before any listener
\* gets to run, so the aggregator wakes on the pressure channel only.
\* Distinct keys come in one order.
BurstKey(i) == "k" \o ToString(i)

InitBurst == NewCache({[p \in Procs |-> TRUE]})

\* The send of broadcastKeyInvalidate(key) finds the channel full.
sendBlocks(p, key) ==
    /\ Cardinality(invalidateKeys[p] \cup {storeKey(key)}) = maxInvalidate
    /\ invalidateCh[p] >= invalidateChSize

\* A call of broadcastKeyInvalidate for the first key (pending or not) or for
\* the next key that is not pending yet.
Enqueue(p, i) ==
    /\ inMemCache[p]
    /\ \/ i = 1
       \/ /\ storeKey(BurstKey(i - 1)) \in invalidateKeys[p]
          /\ storeKey(BurstKey(i)) \notin invalidateKeys[p]
    /\ broadcastKeyInvalidate(p, BurstKey(i))
    /\ UNCHANGED <<now, redis, inMemCache, mem, group, calls, msgs, originCount,
                   started, setv, lifeVars>>

NextBurst ==
    \/ \E i \in 1..maxInvalidate : Enqueue("A", i)
    \/ \E p \in Procs : aggregateSend(p, TRUE)

SpecBurst == InitBurst /\ [][NextBurst]_vars

\* SpecBatch: every call hands over a key that is not pending yet, and the
\* listeners run.
EnqueueNew(p, i) ==
    /\ storeKey(BurstKey(i)) \notin invalidateKeys[p]
    /\ Enqueue(p, i)

NextBatch ==
    \/ \E i \in 1..maxInvalidate : EnqueueNew("A", i)
    \/ \E p \in Procs : aggregateSend(p, TRUE)
    \/ \E p \in Procs : \E l \in msgs[p] : listenKeyInvalidate(p, l)

SpecBatch == InitBurst /\ [][NextBatch]_vars

\* ------------------------------------------- background tasks and Close
\* A request thread of process p hands a key to broadcastKeyInvalidate, as
\* updateMemoryCache and deleteKey do.
Pend(p, key) ==
    /\ inMemCache[p]
    /\ broadcastKeyInvalidate(p, key)
    /\ UNCHANGED <<now, redis, inMemCache, mem, group, calls, msgs, originCount,
                   started, setv, lifeVars>>

\* Fault variant of AggWake: the publish child is started without c.wg.Add(1).
AggWakeUntracked(p, signalled) ==
    /\ aggPc[p] = "select"
    /\ publishing[p] < MaxKids
    /\ IF signalled
         THEN /\ invalidateCh[p] > 0
              /\ invalidateCh' = [invalidateCh EXCEPT ![p] = @ - 1]
         ELSE UNCHANGED invalidateCh
    /\ publishing' = [publishing EXCEPT ![p] = @ + 1]
    /\ UNCHANGED <<now, redis, inMemCache, mem, group, calls, invalidateKeys, msgs,
                   originCount, started, setv, pubsub, ctxDone, wg, aggPc, lstPc,
                   handling, closePc, busyAtClose>>

\* aggregateSend's select takes the ticker or a signal (it may, also with
\* ctx cancelled), adds one to c.wg and starts a publish child.
AggWake(p, signalled) ==
    /\ aggPc[p] = "select"
    /\ publishing[p] < MaxKids
    /\ IF signalled
         THEN /\ invalidateCh[p] > 0
              /\ invalidateCh' = [invalidateCh EXCEPT ![p] = @ - 1]
         ELSE UNCHANGED invalidateCh
    /\ wg' = [wg EXCEPT ![p] = @ + 1]
    /\ publishing' = [publishing EXCEPT ![p] = @ + 1]
    /\ UNCHANGED <<now, redis, inMemCache, mem, group, calls, invalidateKeys, msgs,
                   originCount, started, setv, pubsub, ctxDone, aggPc, lstPc,
                   handling, closePc, busyAtClose>>

\* What the subscribers hold after payload m is published: a subscriber
\* whose buffer is full misses it.
Delivered(m) ==
    [q \in Procs |->
       IF q \in Subscribers /\ Cardinality(msgs[q]) < MaxInFlight
         THEN msgs[q] \cup {m} ELSE msgs[q]]

\* A publish child runs: it returns if nothing is pending, else swaps the
\* pending set for an empty one and publishes it with c.ctx; the publish
\* goes out (sent) unless c.ctx is cancelled, when it may fail.  Then
\* c.wg.Done().
AggChild(p, sent) ==
    /\ publishing[p] > 0
    /\ sent \/ ctxDone[p]
    /\ publishing' = [publishing EXCEPT ![p] = @ - 1]
    /\ wg' = [wg EXCEPT ![p] = @ - 1]
    /\ IF invalidateKeys[p] = {}
         THEN /\ sent
              /\ UNCHANGED <<invalidateKeys, msgs>>
         ELSE /\ invalidateKeys' = [invalidateKeys EXCEPT ![p] = {}]
              /\ IF sent
                   THEN \E m \in Payloads(p, invalidateKeys[p]) : msgs' = Delivered(m)
                   ELSE UNCHANGED msgs
    /\ UNCHANGED <<now, redis, inMemCache, mem, group, calls, invalidateCh,
                   originCount, started, setv, pubsub, ctxDone, aggPc, lstPc,
                   handling, closePc, busyAtClose>>

\* aggregateSend's select takes ctx.Done(): return, c.wg.Done().
AggExit(p) ==
    /\ aggPc[p] = "select"
    /\ ctxDone[p]
    /\ aggPc' = [aggPc EXCEPT ![p] = "exit"]
    /\ wg' = [wg EXCEPT ![p] = @ - 1]
    /\ UNCHANGED <<now, redis, inMemCache, mem, group, calls, bcastVars, msgs,
                   originCount, started, setv, pubsub, ctxDone, lstPc,
                   publishing, handling, closePc, busyAtClose>>

\* listenKeyInvalidate receives a payload (one still buffered after the
\* channel was closed, too), adds one to c.wg and starts a child with it.
LstRecv(p, l) ==
    /\ lstPc[p] = "recv"
    /\ l \in msgs[p]
    /\ l \notin handling[p]
    /\ Cardinality(handling[p]) < MaxKids
    /\ msgs' = [msgs EXCEPT ![p] = @ \ {l}]
    /\ handling' = [handling EXCEPT ![p] = @ \cup {l}]
    /\ wg' = [wg EXCEPT ![p] = @ + 1]
    /\ UNCHANGED <<now, redis, inMemCache, mem, group, calls, bcastVars,
                   originCount, started, setv, pubsub, ctxDone, aggPc, lstPc,
                   publishing, closePc, busyAtClose>>

\* A per-message child deletes the keys of its payload, then c.wg.Done().
LstChild(p, l) ==
    /\ l \in handling[p]
    /\ mem' = [mem EXCEPT ![p] =
          [m \in MemKeys |-> IF m \in invalidated(p, l) THEN MemAbsent ELSE mem[p][m]]]
    /\ handling' = [handling EXCEPT ![p] = @ \ {l}]
    /\ wg' = [wg EXCEPT ![p] = @ - 1]
    /\ UNCHANGED <<now, redis, inMemCache, group, calls, bcastVars, msgs,
                   originCount, started, setv, pubsub, ctxDone, aggPc, lstPc,
                   publishing, closePc, busyAtClose>>

\* listenKeyInvalidate finds the channel closed and empty: return,
\* c.wg.Done().
LstExit(p) ==
    /\ lstPc[p] = "recv"
    /\ pubsub[p] = "ch_closed"
    /\ msgs[p] = {}
    /\ lstPc' = [lstPc EXCEPT ![p] = "exit"]
    /\ wg' = [wg EXCEPT ![p] = @ - 1]
    /\ UNCHANGED <<now, redis, inMemCache, mem, group, calls, bcastVars, msgs,
                   originCount, started, setv, pubsub, ctxDone, aggPc,
                   publishing, handling, closePc, busyAtClose>>

\* The message channel of a closed PubSub is closed.
ChanClose(p) ==
    /\ pubsub[p] = "closed"
    /\ pubsub' = [pubsub EXCEPT ![p] = "ch_closed"]
    /\ UNCHANGED <<now, redis, inMemCache, mem, group, calls, bcastVars, msgs,
                   originCount, started, setv, ctxDone, wg, aggPc, lstPc,
                   publishing, handling, closePc, busyAtClose>>

\* Close() is called: with a pubsub it unsubscribes first.
Close(p) ==
    /\ closePc[p] = "none"
    /\ busyAtClose' = [busyAtClose EXCEPT ![p] = publishing[p] > 0 /\ handling[p] # {}]
    /\ IF pubsub[p] = "nil"
         THEN /\ closePc' = [closePc EXCEPT ![p] = "cancel"]
              /\ UNCHANGED pubsub
         ELSE /\ closePc' = [closePc EXCEPT ![p] = "close_pubsub"]
              /\ pubsub' = [pubsub EXCEPT ![p] = "unsubscribed"]
    /\ UNCHANGED <<now, redis, inMemCache, mem, group, calls, bcastVars, msgs,
                   originCount, started, setv, ctxDone, wg, aggPc, lstPc,
                   publishing, handling>>

\* c.pubsub.Close()
ClosePubsub(p) ==
    /\ closePc[p] = "close_pubsub"
    /\ pubsub' = [pubsub EXCEPT ![p] = "closed"]
    /\ closePc' = [closePc EXCEPT ![p] = "cancel"]
    /\ UNCHANGED <<now, redis, inMemCache, mem, group, calls, bcastVars, msgs,
                   originCount, started, setv, ctxDone, wg, aggPc, lstPc,
                   publishing, handling, busyAtClose>>

\* c.cancel()
CloseCancel(p) ==
    /\ closePc[p] = "cancel"
    /\ ctxDone' = [ctxDone EXCEPT ![p] = TRUE]
    /\ closePc' = [closePc EXCEPT ![p] = "wait"]
    /\ UNCHANGED <<now, redis, inMemCache, mem, group, calls, bcastVars, msgs,
                   originCount, started, setv, pubsub, wg, aggPc, lstPc,
                   publishing, handling, busyAtClose>>

\* c.wg.Wait() returns when the counter is zero; Close() returns after it.
CloseWait(p) ==
    /\ closePc[p] = "wait"
    /\ wg[p] = 0
    /\ closePc' = [closePc EXCEPT ![p] = "returned"]
    /\ UNCHANGED <<now, redis, inMemCache, mem, group, calls, bcastVars, msgs,
                   originCount, started, setv, pubsub, ctxDone, wg, aggPc, lstPc,
                   publishing, handling, busyAtClose>>

\* SpecClose: process A with or without a freecache, process B without.  Keys
\* are handed over for broadcast while the background tasks run and Close()
\* is called at any moment.  A task or a
\* child that can take a step eventually takes it; Redis answers.
NextClose ==
    \/ \E p \in Procs, k \in Keys : Pend(p, k)
    \/ \E p \in Procs, signalled \in BOOLEAN : AggWake(p, signalled)
    \/ \E p \in Procs, sent \in BOOLEAN : AggChild(p, sent)
    \/ \E p \in Procs : AggExit(p)
    \/ \E p \in Procs : \E l \in msgs[p] : LstRecv(p, l)
    \/ \E p \in Procs : \E l \in handling[p] : LstChild(p, l)
    \/ \E p \in Procs : LstExit(p)
    \/ \E p \in Procs : ChanClose(p)
    \/ \E p \in Procs : Close(p)
    \/ \E p \in Procs : ClosePubsub(p)
    \/ \E p \in Procs : CloseCancel(p)
    \/ \E p \in Procs : CloseWait(p)

FairClose ==
    \A p \in Procs :
       /\ WF_vars(\E sent \in BOOLEAN : AggChild(p, sent))
       /\ WF_vars(AggExit(p))
       /\ WF_vars(\E l \in msgs[p] : LstRecv(p, l))
       /\ WF_vars(\E l \in handling[p] : LstChild(p, l))
       /\ WF_vars(LstExit(p))
       /\ WF_vars(ChanClose(p))
       /\ WF_vars(ClosePubsub(p))
       /\ WF_vars(CloseCancel(p))
       /\ WF_vars(CloseWait(p))

SpecClose == Init /\ [][NextClose]_vars /\ FairClose

\* ------------------------------------------------------------- claims
K == "k"
Call(t) == calls[t]
Returned(t) == calls[t].pc = "done" /\ calls[t].op = "get"

\* C1 (SpecCold): however the callers of one process interleave on a key that
\* nothing holds, the origin is read at most once, and every caller that has
\* returned got the value of that one read, without error.
C1_OriginOnce ==
    /\ originCount <= 1
    /\ \A t \in Threads :
          Returned(t) =>
             /\ originCount = 1
             /\ calls[t].err = "none"
             /\ calls[t].val = 1

\* Three callers have returned side by side after a single origin read.
C1_Witness ==
    /\ \A t \in ColdThreads : Returned(t)
    /\ originCount = 1

\* A message from process p that reaches p's listener carries key x.
InFlightTo(p, from, x) ==
    \E l \in msgs[p] : l[1] = from /\ \E i \in 2..Len(l) : l[i] = x

\* The invalidation of key x by A is waiting for broadcast or on its way to B.
Pipeline(x) == x \in invalidateKeys["A"] \/ InFlightTo("B", "A", x)

\* C2 (SpecInval), as claimed: once A, holding another payload for k in memory,
\* has Set k with a TTL of a second or more, the invalidation of store_key(k)
\* is pending, on its way to B, or B's entry under store_key(k) is gone.
C2_SetEvictsPeer ==
    (/\ calls["a1"].pc = "done"
     /\ calls["a1"].op = "set"
     /\ calls["a1"].err = "none"
     /\ calls["a1"].bc)
    => (Pipeline(storeKey(K)) \/ ~MemHit("B", K))

\* C3 (SpecInval), as claimed: once A has invalidated k, in any state of its
\* own memory, the invalidation of store_key(k) is pending, on its way to B,
\* or B's entry is gone.
C3_InvalidateEvictsPeer ==
    (calls["a1"].pc = "done" /\ calls["a1"].op = "inv")
    => (Pipeline(storeKey(K)) \/ ~MemHit("B", K))

\* C3 (SpecInval), amended: the same, for an Invalidate that found k in A's own
\* memory.
C3_InvalidateHeldEvictsPeer ==
    (calls["a1"].pc = "done" /\ calls["a1"].op = "inv" /\ calls["a1"].bc)
    => (Pipeline(storeKey(K)) \/ ~MemHit("B", K))

\* A's Invalidate found the key, the batch was published and handled, and B,
\* whose entry had not expired, no longer holds it.
C3_Witness ==
    /\ calls["a1"].pc = "done" /\ calls["a1"].op = "inv" /\ calls["a1"].bc
    /\ started = 1
    /\ ~Pipeline(storeKey(K))
    /\ ~MemHit("B", K)
    /\ now < SeedExp

\* C4 (Spec), as claimed: a Get (noCache=false, ctx alive) that started on a
\* process after a Set of v returned there, with no Set or Invalidate and no
\* expiry since, returns v and reads no origin.
C4_GetAfterSet ==
    \A t \in Threads :
       (/\ Returned(t)
        /\ ~calls[t].noCache
        /\ ~calls[t].cancelled
        /\ calls[t].afterSet # NoVal
        /\ setv[procOf(t)].v = calls[t].afterSet)
       => (/\ calls[t].err = "none"
           /\ calls[t].val = calls[t].afterSet
           /\ calls[t].reads = 0)

\* C5 (SpecInval): handling a payload whose first field is the listener's own
\* id leaves that process's in-memory cache as it was.
C5_NoSelfEviction ==
    [][\A p \in Procs : \A l \in msgs[p] :
          (l \notin msgs'[p] /\ l[1] = p) => mem'[p] = mem[p]]_vars

\* A's Set replaced another payload and enqueued a broadcast; the batch went
\* out and came back, and A still holds what it set.
C5_Witness ==
    /\ calls["a1"].pc = "done" /\ calls["a1"].op = "set" /\ calls["a1"].bc
    /\ invalidateKeys["A"] = {}
    /\ msgs["A"] = {}
    /\ MemHit("A", K)
    /\ mem["A"][storeKey(K)].val = calls["a1"].val

\* Thread t runs updateMemoryCache in this step (from setKey or a backfill).
UpdatesMemory(t) ==
    /\ calls[t].pc \in {"update_mem", "backfill"}
    /\ calls'[t].pc # calls[t].pc

\* C6 (Spec), as claimed: updateMemoryCache with an envelope that has less
\* than a second left (ExpiredAt - now < 1000 ms) writes nothing to the
\* in-memory cache.
C6_SubSecondNotCached ==
    [][\A t \in Threads :
          (UpdatesMemory(t) /\ calls[t].exp - now < SecondMs)
          => mem'[procOf(t)] = mem[procOf(t)]]_vars

\* C7 (Spec): a noCache call that has returned saw an origin read complete
\* during the call, and returns that read's value or its error.
C7_NoCacheReadsOrigin ==
    \A t \in Threads :
       (Returned(t) /\ calls[t].noCache) =>
          /\ originCount > calls[t].oc0
          /\ calls[t].err \in {"none", "origin"}
          /\ calls[t].err = "none" => calls[t].val \in (calls[t].oc0 + 1)..originCount
          /\ calls[t].err = "origin" => calls[t].val = NoVal

\* A noCache call returned a fresh origin value while Redis and the
\* in-memory cache both held another payload for the key.
C7_Witness ==
    \E t \in Threads :
       /\ Returned(t) /\ calls[t].noCache /\ calls[t].err = "none"
       /\ Present(redis[storeKey(K)])
       /\ redis[storeKey(K)].ValueBytes # calls[t].val
       /\ MemHit(procOf(t), K)
       /\ mem[procOf(t)][storeKey(K)].val # calls[t].val

\* Thread t, running a noStore GetWithTtl, takes this step itself (a waiting
\* caller is moved by the flight's executor).
NoStoreStep(t) ==
    /\ calls'[t] # calls[t]
    /\ calls[t].pc \notin {"lk_wait", "rv_wait", "done"}
    /\ \/ calls[t].op = "get" /\ calls[t].noStore
       \/ calls[t].pc = "idle" /\ calls'[t].op = "get" /\ calls'[t].noStore

\* C8 (Spec): no step of a noStore GetWithTtl changes the Redis entry under
\* store_key(k), the process's in-memory cache or its pending keys.
C8_NoStoreWritesNothing ==
    [][\A t \in Threads :
          NoStoreStep(t) =>
             /\ redis'[storeKey(K)] = redis[storeKey(K)]
             /\ mem'[procOf(t)] = mem[procOf(t)]
             /\ invalidateKeys'[procOf(t)] = invalidateKeys[procOf(t)]]_vars

\* A noStore call returned a value from Redis (it read no origin) and the
\* attached in-memory cache was not backfilled.
C8_Witness ==
    \E t \in Threads :
       /\ Returned(t) /\ calls[t].noStore /\ ~calls[t].noCache
       /\ calls[t].err = "none" /\ calls[t].reads = 0
       /\ calls[t].val # NoVal
       /\ inMemCache[procOf(t)]
       /\ ~MemHit(procOf(t), K)
       /\ Present(redis[storeKey(K)])

\* C9 (SpecLock): an executor whose ctx was cancelled in the retry loop, while
\* the lock it had found held was still alive, returns TIMEOUT and has read
\* no origin.
C9_TimeoutNoOrigin ==
    \A t \in Threads :
       (Returned(t) /\ calls[t].heldAtCancel) =>
          (calls[t].err = "timeout" /\ calls[t].reads = 0)

C9_Witness ==
    \E t \in Threads :
       /\ Returned(t) /\ calls[t].heldAtCancel
       /\ calls[t].err = "timeout"
       /\ procOf(t) = "A"
       /\ calls["b1"].pc = "origin"

\* C10 (SpecLock), as claimed: every caller cancelled while waiting on lock
\* contention, executor or follower, returns TIMEOUT, after at most one more
\* lockSleep.
C10_WaiterTimesOut ==
    \A t \in Threads :
       /\ calls[t].late <= 1
       /\ (Returned(t) /\ calls[t].cwait # "none") => calls[t].err = "timeout"

\* C10 (SpecLock), amended: the executor cancelled in its sleep returns
\* TIMEOUT, after at most one more lockSleep.
C10_ExecutorTimesOut ==
    \A t \in Threads :
       /\ calls[t].late <= 1
       /\ (Returned(t) /\ calls[t].cwait = "exec") => calls[t].err = "timeout"

\* An executor cancelled in its sleep woke once more and then timed out.
C10_Witness ==
    \E t \in Threads :
       /\ Returned(t) /\ calls[t].cwait = "exec"
       /\ calls[t].late = 1
       /\ calls[t].err = "timeout"

\* SpecLive: callers of two processes, each with an in-memory layer, read one
\* key with and without noCache, their contexts never cancelled.  Every caller that
\* can take a step eventually takes one, the origin returns, and the clock
\* goes on until the locks taken have run out.
LiveThreads == {"a1", "a2", "b1"}

\* A step of thread t inside GetWithTtl.
Step(t) ==
    \/ LockFlightDo(t)
    \/ RedisGet(t)
    \/ Backfill(t)
    \/ SetNX(t)
    \/ SleepSelect(t, FALSE)
    \/ LockFlightReturn(t)
    \/ ReadFlightDo(t)
    \/ \E ttl \in Ttls, ok \in BOOLEAN : Origin(t, ttl, ok)
    \/ SetKeyRemote(t)
    \/ SetKeyMem(t)

NextLive ==
    \/ \E t \in LiveThreads, k \in Keys, nc \in BOOLEAN :
          started < MaxOrigin /\ GetWithTtl(t, k, nc, FALSE)
    \/ \E t \in LiveThreads : Step(t)
    \/ TickWhileLocked

Fairness ==
    /\ \A t \in LiveThreads : WF_vars(Step(t))
    /\ WF_vars(TickWhileLocked)

SpecLive == InitBurst /\ [][NextLive]_vars /\ Fairness

\* Thread t took lock_key(k) with SETNX and is still inside that read.
Holder(t) == calls[t].op = "get" /\ calls[t].inLock

\* Thread t has read the origin under the lock it took.
ReadUnderLock(t) == Holder(t) /\ calls[t].reads > 0

Apart(x, y) == x - y >= readInterval \/ y - x >= readInterval

C12_EnqueueNeverBlocks ==
    \A p \in Procs : \A i \in 1..maxInvalidate : ~sendBlocks(p, BurstKey(i))

\* Payload l is the batch of process p for the pending set keys: the id, then
\* every key once.
IsBatch(l, p, keys) ==
    /\ l[1] = p
    /\ Len(l) = 1 + Cardinality(keys)
    /\ {l[i] : i \in 2..Len(l)} = keys

\* C13 (SpecBatch): with no ticker wake, keys leave the pending set of a
\* process only in a step that publishes them, and a step that publishes
\* sends every subscriber one message: the id followed by all maxInvalidate
\* pending keys, which are then pending no more.
C13_OneBatch ==
    [][\A p \in Procs :
          /\ ~(invalidateKeys[p] \subseteq invalidateKeys'[p])
                => \A q \in Subscribers :
                      \E l \in msgs'[q] \ msgs[q] : IsBatch(l, p, invalidateKeys[p])
          /\ \A q \in Procs : \A l \in msgs'[q] \ msgs[q] :
                l[1] = p =>
                   /\ IsBatch(l, p, invalidateKeys[p])
                   /\ Cardinality(invalidateKeys[p]) = maxInvalidate
                   /\ invalidateKeys'[p] = {}
                   /\ msgs'[q] \ msgs[q] = {l}]_vars

\* The batch of maxInvalidate keys is on its way to B, nothing is pending,
\* and the signal that woke the aggregator was the only one.
C13_Witness ==
    /\ \E l \in msgs["B"] : l[1] = "A" /\ Len(l) = 1 + maxInvalidate
    /\ invalidateKeys["A"] = {}
    /\ invalidateCh["A"] = 0

\* C14 (SpecInval), as claimed: when the only caller of process A has just
\* returned from a successful Set (so that no setKey or backfill is part-way
\* through and the envelope it wrote is the latest A wrote or read), a
\* present in-memory entry of A holds the payload of that envelope.
C14_LocalMatchesLastEnvelope ==
    (/\ calls["a1"].pc = "done"
     /\ calls["a1"].op = "set"
     /\ calls["a1"].err = "none"
     /\ MemHit("A", K))
    => mem["A"][storeKey(K)].val = calls["a1"].val

\* C16 (Spec): the Redis entry under lock_key(k) changes in two ways only: a
\* SETNX writes it when no lock is alive, and it goes when its TTL of
\* readInterval has run out.  No Get, Set or Invalidate deletes or
\* overwrites a lock that is alive.
C16_LockOnlyExpires ==
    [][\A k \in Keys :
          redis'[lockKey(k)] # redis[lockKey(k)] =>
             \/ /\ ~Present(redis[lockKey(k)])
                /\ redis'[lockKey(k)] =
                      [ValueBytes |-> NoVal, ExpiredAt |-> now + readInterval]
                /\ now' = now
             \/ /\ now' > now
                /\ redis[lockKey(k)].ExpiredAt <= now'
                /\ redis'[lockKey(k)] = Absent]_vars

\* The lock is still alive after its holder's origin read failed and after
\* the key was invalidated.
C16_Witness ==
    /\ Present(redis[lockKey(K)])
    /\ \E t \in Threads : Returned(t) /\ calls[t].err = "origin"
    /\ \E t \in Threads : calls[t].op = "inv" /\ calls[t].pc = "done"

\* Thread t takes a step of its own (a waiting caller is moved by the
\* flight's executor).
OwnStep(t) ==
    /\ calls'[t] # calls[t]
    /\ calls[t].pc \notin {"lk_wait", "rv_wait", "done"}

\* C17 (Spec): a call whose origin read failed, its own or the one of the
\* flight it shared, returns the origin's error and no value; the failing
\* read and every later step of such a call leave the Redis entry under
\* store_key(k), the in-memory cache and the pending keys as they were.
C17_OriginErrorVerbatim ==
    /\ [](\A t \in Threads :
             (Returned(t) /\ calls[t].failed)
             => (calls[t].err = "origin" /\ calls[t].val = NoVal))
    /\ [][\A t \in Threads :
             (OwnStep(t) /\ (calls[t].failed \/ calls'[t].failed)) =>
                /\ redis'[storeKey(K)] = redis[storeKey(K)]
                /\ mem' = mem
                /\ invalidateKeys' = invalidateKeys]_vars

\* Two callers shared one failed origin read and both returned its error,
\* while Redis still holds the entry it held before.
C17_Witness ==
    \E t, u \in Threads :
       /\ t # u
       /\ Returned(t) /\ calls[t].failed /\ calls[t].reads = 1
       /\ Returned(u) /\ calls[u].failed /\ calls[u].reads = 0
       /\ calls[u].err = "origin"
       /\ Present(redis[storeKey(K)])

\* Thread t's updateMemoryCache writes the in-memory entry of k in this step.
WritesMemory(t) ==
    /\ UpdatesMemory(t)
    /\ mem'[procOf(t)][storeKey(K)] # mem[procOf(t)][storeKey(K)]

Invalidated(t) ==
    /\ calls[t].op = "inv" /\ calls[t].pc = "done"
    /\ calls'[t].pc = "done"

\* C19 (Spec), as claimed: once Invalidate(k) has returned on a process, no
\* step puts into Redis or into that process's in-memory cache an entry for k
\* whose value the origin returned before the Invalidate began (the origin's
\* values are numbered in the order they are read).
C19_NoStaleRepopulation ==
    [][\A t \in Threads :
          Invalidated(t) =>
             /\ (redis'[storeKey(K)] # redis[storeKey(K)])
                   => redis'[storeKey(K)].ValueBytes \notin 1..calls[t].oc0
             /\ (mem'[procOf(t)][storeKey(K)] # mem[procOf(t)][storeKey(K)])
                   => mem'[procOf(t)][storeKey(K)].val \notin 1..calls[t].oc0]_vars

\* C20 (SpecLive): every GetWithTtl call in progress eventually returns.
C20_EveryCallReturns ==
    \A t \in LiveThreads :
       (calls[t].op = "get" /\ calls[t].pc # "done") ~> (calls[t].pc = "done")

\* A noCache=false caller returned the value read by a noCache caller of its
\* process that has not stored it yet: its lock flight joined the read flight.
C20_Witness ==
    /\ calls["a1"].pc = "set_key" /\ calls["a1"].noCache
    /\ calls["a1"].reads = 1
    /\ Returned("a2") /\ ~calls["a2"].noCache
    /\ calls["a2"].reads = 0 /\ calls["a2"].err = "none"
    /\ calls["a2"].val = calls["a1"].val

\* C15 (SpecClose): Close() returns only when the aggregator, the listener
\* and every child they started have exited, and once called it returns.
C15_CloseWaitsAndReturns ==
    /\ [](\A p \in Procs :
            closePc[p] = "returned" =>
               /\ aggPc[p] # "select" /\ lstPc[p] # "recv"
               /\ publishing[p] = 0 /\ handling[p] = {})
    /\ \A p \in Procs : (closePc[p] # "none") ~> (closePc[p] = "returned")

\* Close() returned for a process that was publishing a batch and handling
\* a message when it was called.
C15_Witness ==
    \E p \in Procs : closePc[p] = "returned" /\ busyAtClose[p] /\ aggPc[p] = "exit"


====
